---------------------------- MODULE Spec2Model ----------------------------
(***************************************************************************)
(* Model of the perpo inline-completion provider                           *)
(* (src/src/extension.ts, class PerplexityCompletionProvider):             *)
(*   - the response sanitizer (cleanCompletion, cleanGeneratedCode,        *)
(*     looksLikeCode) as operators over strings;                           *)
(*   - the request coordinator (provideInlineCompletionItems, its debounce *)
(*     timer callback, handlePromptGeneration, getCompletionWithDebounce,  *)
(*     updateConfiguration) as a state machine.                            *)
(*                                                                         *)
(* Texts are TLA+ strings; TLC evaluates Len, SubSeq and \o on them.       *)
(* SANY's lexer rejects the grave accent (U+0060) inside a string literal, *)
(* so that one character is written BT below and stands for itself in      *)
(* every text of the model; no pattern of the source mentions "~".         *)
(***************************************************************************)
EXTENDS Integers, Sequences, FiniteSets, TLC

\* ------------------------------------------------------------------------
\* Characters and basic string functions (JavaScript String / RegExp).
\* ------------------------------------------------------------------------

\* The grave accent character (see the note above).
BT ==
  "~"

\* A fence marker: three grave accents.
FENCE ==
  BT \o BT \o BT

UpperAlpha ==
  "ABCDEFGHIJKLMNOPQRSTUVWXYZ"

LowerAlpha ==
  "abcdefghijklmnopqrstuvwxyz"

Digits ==
  "0123456789"

\* The character of s at index i (1-based), or "" outside s (as charAt).
At(s, i) ==
  IF 1 <= i /\ i <= Len(s) THEN SubSeq(s, i, i) ELSE ""

CharsOf(s) ==
  {At(s, i) : i \in 1..Len(s)}

\* \s of a JavaScript regular expression, and what String.trim removes.
Whitespace ==
  {" ", "\t", "\n", "\r", "\f"}

\* The characters "." of a regular expression does not match.
LineTerminators ==
  {"\n", "\r"}

\* [a-zA-Z]
Letters ==
  CharsOf(UpperAlpha) \cup CharsOf(LowerAlpha)

\* \d
DigitChars ==
  CharsOf(Digits)

\* [a-zA-Z0-9_$]
IdentChars ==
  Letters \cup DigitChars \cup {"_", "$"}

IsLetter(c) ==
  c \in Letters

IsDigit(c) ==
  c \in DigitChars

\* [a-zA-Z_$]
IsIdentStart(c) ==
  IsLetter(c) \/ c \in {"_", "$"}

\* [a-zA-Z0-9_$]
IsIdentChar(c) ==
  c \in IdentChars

\* \w, the class \b is defined by
IsWordChar(c) ==
  IsLetter(c) \/ IsDigit(c) \/ c = "_"

LowerChar(c) ==
  IF c \in CharsOf(UpperAlpha) /\ c # ""
    THEN At(LowerAlpha, CHOOSE i \in 1..Len(UpperAlpha) : At(UpperAlpha, i) = c)
    ELSE c

\* String.prototype.toLowerCase: every character lowered, the two halves
\* of the text in turn.
RECURSIVE toLowerCase(_)
toLowerCase(s) ==
  IF Len(s) = 0 THEN ""
  ELSE IF Len(s) = 1 THEN LowerChar(s)
  ELSE LET half == Len(s) \div 2
       IN  toLowerCase(SubSeq(s, 1, half))
             \o toLowerCase(SubSeq(s, half + 1, Len(s)))

\* p occurs in s at index i (1-based).
MatchesAt(s, p, i) ==
  /\ i >= 1
  /\ i + Len(p) - 1 <= Len(s)
  /\ SubSeq(s, i, i + Len(p) - 1) = p

startsWith(s, p) ==
  MatchesAt(s, p, 1)

endsWith(s, p) ==
  MatchesAt(s, p, Len(s) - Len(p) + 1)

\* String.indexOf from a position: the least index >= from where p occurs, or 0.
IndexFrom(s, p, from) ==
  LET hits == {i \in from..(Len(s) - Len(p) + 1) : MatchesAt(s, p, i)}
  IN  IF hits = {} THEN 0 ELSE CHOOSE i \in hits : \A j \in hits : i <= j

includes(s, p) ==
  IndexFrom(s, p, 1) # 0

\* String.prototype.trim
\* s from its first character that is not whitespace on.
trimStart(s) ==
  LET kept == {i \in 1..Len(s) : At(s, i) \notin Whitespace}
  IN  IF kept = {} THEN ""
      ELSE SubSeq(s, CHOOSE i \in kept : \A j \in kept : i <= j, Len(s))

\* s up to its last character that is not whitespace.
trimEnd(s) ==
  LET kept == {i \in 1..Len(s) : At(s, i) \notin Whitespace}
  IN  IF kept = {} THEN ""
      ELSE SubSeq(s, 1, CHOOSE i \in kept : \A j \in kept : i >= j)

trim(s) ==
  trimEnd(trimStart(s))

\* String.prototype.split('\n'): the sequence of the lines of s.
RECURSIVE split(_)
split(s) ==
  LET i == IndexFrom(s, "\n", 1)
  IN  IF i = 0 THEN <<s>>
      ELSE <<SubSeq(s, 1, i - 1)>> \o split(SubSeq(s, i + 1, Len(s)))

\* Array.prototype.join('\n')
RECURSIVE join(_)
join(lines) ==
  IF Len(lines) = 0 THEN ""
  ELSE IF Len(lines) = 1 THEN lines[1]
  ELSE lines[1] \o "\n" \o join(Tail(lines))

\* The length of the longest prefix of s from index i whose characters are
\* all in class (a greedy  [class]*  match); the index after it is returned.
SkipWhile(s, i, class) ==
  LET stops == {j \in i..Len(s) : At(s, j) \notin class}
  IN  IF stops # {} THEN CHOOSE j \in stops : \A k \in stops : j <= k
      ELSE IF i <= Len(s) THEN Len(s) + 1
      ELSE i

UpperChar(c) ==
  IF c \in CharsOf(LowerAlpha) /\ c # ""
    THEN At(UpperAlpha, CHOOSE i \in 1..Len(LowerAlpha) : At(LowerAlpha, i) = c)
    ELSE c

\* ------------------------------------------------------------------------
\* Response sanitizer.
\* ------------------------------------------------------------------------

\* The i flag of a regular expression: the lower-case literal p occurs in s
\* at index i when letter case is ignored.
MatchesIgnoringCase(s, p, i) ==
  /\ i >= 1
  /\ i + Len(p) - 1 <= Len(s)
  /\ \A k \in 1..Len(p) : LowerChar(At(s, i + k - 1)) = At(p, k)

\* The least index where p occurs in s when letter case is ignored, or 0.
IndexIgnoringCase(s, p) ==
  LET hits == {i \in 1..Len(s) : MatchesIgnoringCase(s, p, i)}
  IN  IF hits = {} THEN 0 ELSE CHOOSE i \in hits : \A j \in hits : i <= j

\* A cleaner that removes only the reasoning block, up to its closing tag.
stripThinkBlock(s) ==
  LET low == toLowerCase(s)
      i == IndexFrom(low, "<think>", 1)
      j == IF i = 0 THEN 0 ELSE IndexFrom(low, "</think>", i)
  IN  IF i = 0 \/ j = 0
        THEN s
        ELSE SubSeq(s, 1, i - 1) \o SubSeq(s, j + 8, Len(s))

\* s.replace(/<think>[\s\S]*$/gi, ''): the first "<think>", in any letter
\* case, and everything after it are removed.
stripThink(s) ==
  LET i == IndexIgnoringCase(s, "<think>")
  IN  IF i = 0 THEN s ELSE SubSeq(s, 1, i - 1)

\* s.replace(/^```[\s\S]*?\n?/, ''): the lazy [\s\S]*? matches nothing, so the
\* match is the three grave accents and a line feed when one follows at once.
stripOpeningFence(s) ==
  IF startsWith(s, FENCE)
    THEN IF At(s, 4) = "\n" THEN SubSeq(s, 5, Len(s)) ELSE SubSeq(s, 4, Len(s))
    ELSE s

\* s.replace(/\n?```$/, ''): three grave accents at the very end of the text
\* ($ without the m flag), with the line feed before them when there is one.
stripClosingFence(s) ==
  IF endsWith(s, FENCE)
    THEN LET r == SubSeq(s, 1, Len(s) - 3)
         IN  IF endsWith(r, "\n") THEN SubSeq(r, 1, Len(r) - 1) ELSE r
    ELSE s

\* The first line of s: "." does not match a line terminator and the
\* patterns are anchored with ^ (no m flag).
FirstLine(s) ==
  LET ends == {i \in 1..Len(s) : At(s, i) \in LineTerminators}
  IN  IF ends = {} THEN s
      ELSE SubSeq(s, 1, (CHOOSE i \in ends : \A j \in ends : i <= j) - 1)

\* The length of the longest alternative of kws that occurs in s at i, or 0.
KeywordLenAt(s, kws, i) ==
  LET lens == {Len(k) : k \in {w \in kws : MatchesAt(s, w, i)}}
  IN  IF lens = {} THEN 0 ELSE CHOOSE n \in lens : \A m \in lens : n >= m

\* s.replace(/^.*?KW.*?T/, ''), KW one of kws and T the character term: the
\* prefix of the first line up to the first T after the first KW is removed.
stripLeadIn(s, kws, term) ==
  LET L    == FirstLine(s)
      hits == {i \in 1..Len(L) : KeywordLenAt(L, kws, i) > 0}
  IN  IF hits = {} THEN s
      ELSE LET i == CHOOSE h \in hits : \A g \in hits : h <= g
               j == IndexFrom(L, term, i + KeywordLenAt(L, kws, i))
           IN  IF j = 0 THEN s ELSE SubSeq(s, j + 1, Len(s))

\* [Xx]rest: the word with its first letter in either case.
EitherCase(w) ==
  {w, UpperChar(At(w, 1)) \o SubSeq(w, 2, Len(w))}

\* The replace calls of the explanationPatterns loop, one pattern after the
\* other.  (The test of Len(next) makes TLC compute the text one replace
\* gives before the next replace reads it; it is always true.)
RECURSIVE stripLeadIns(_, _, _)
stripLeadIns(s, patterns, term) ==
  IF Len(patterns) = 0 THEN s
  ELSE LET next == stripLeadIn(s, Head(patterns), term)
       IN  IF Len(next) >= 0
             THEN stripLeadIns(next, Tail(patterns), term)
             ELSE s

\* cleanCompletion's explanationPatterns, each ending with \.
completionPatterns ==
  << EitherCase("okay"), EitherCase("let's see"), EitherCase("the user"),
     EitherCase("the code"), EitherCase("the function"), EitherCase("i need to"),
     EitherCase("we need"), EitherCase("complete"), {"wants me to"} >>

\* cleanGeneratedCode's explanationPatterns, each ending with ":"
generatedPatterns ==
  << {"Here's", "here's", "Heres", "heres"}, EitherCase("this code"),
     EitherCase("the above"), EitherCase("this will"),
     EitherCase("this function") >>

explanationKeywords ==
  {"the user", "let's see", "okay", "the code", "the function",
   "wants me to", "complete", "i need", "we need", "looking at"}

\* ^[a-zA-Z_$][a-zA-Z0-9_$]*\s*[next]
IdentThen(line, next) ==
  /\ IsIdentStart(At(line, 1))
  /\ At(line, SkipWhile(line, SkipWhile(line, 2, IdentChars), Whitespace)) \in next

\* ^(kw1|kw2|...)\s*\(
KeywordParen(line, kws) ==
  \E k \in kws :
    /\ startsWith(line, k)
    /\ At(line, SkipWhile(line, Len(k) + 1, Whitespace)) = "("

\* ^(kw1|kw2|...)\s+
KeywordSpace(line, kws) ==
  \E k \in kws : startsWith(line, k) /\ At(line, Len(k) + 1) \in Whitespace

\* looksLikeCode's codePatterns
codePatterns(line) ==
  \/ IdentThen(line, {"=", "+", "-", "*", "/"})
  \/ KeywordSpace(line, {"return"})
  \/ IdentThen(line, {"("})
  \/ IdentThen(line, {"."})
  \/ KeywordParen(line, {"if", "for", "while", "switch", "try", "catch"})
  \/ KeywordSpace(line, {"const", "let", "var"})
  \/ KeywordSpace(line, {"function", "class"})
  \/ IsDigit(At(line, 1))
  \/ At(line, 1) \in {"\"", "'"}
  \/ At(line, 1) \in {"{", "}", "[", "]", ";"}
  \/ (At(line, 1) = "a" /\ ~IsWordChar(At(line, 2)))
  \/ (At(line, 1) = "b" /\ ~IsWordChar(At(line, 2)))
  \/ At(line, 1) \in {"+", "-", "*", "/"}

\* A heuristic that tests the code patterns only.
matchesCodePattern(line) ==
  IF Len(line) = 0 THEN FALSE ELSE codePatterns(line)

\* looksLikeCode: no explanation keyword in the lower-cased line, and one of
\* the code patterns matches.
looksLikeCode(line) ==
  IF Len(line) = 0 THEN FALSE
  ELSE LET lowerLine == toLowerCase(line)
       IN  IF \E k \in explanationKeywords : includes(lowerLine, k) THEN FALSE
           ELSE codePatterns(line)

\* The loop of cleanCompletion over the lines, from line i on.
RECURSIVE selectCodeLines(_, _, _)
selectCodeLines(lines, i, codeLines) ==
  IF i > Len(lines) THEN codeLines
  ELSE LET trimmed == trim(lines[i])
       IN  IF Len(codeLines) = 0 /\ trimmed = ""
             THEN selectCodeLines(lines, i + 1, codeLines)
           ELSE IF looksLikeCode(trimmed)
             THEN Append(codeLines, lines[i])
           ELSE IF Len(codeLines) > 0
             THEN codeLines
           ELSE selectCodeLines(lines, i + 1, codeLines)

\* An inline cleaner with the lead-in patterns of the generated-code cleaner.
cleanCompletionColonLeadIns(completion) ==
  LET c1 == stripThink(completion)
  IN  IF trim(c1) = "" THEN ""
      ELSE LET c2 == stripClosingFence(stripOpeningFence(c1))
               c3 == stripLeadIns(c2, generatedPatterns, ":")
           IN  trim(join(selectCodeLines(split(c3), 1, <<>>)))

\* cleanCompletion: marker, empty test, fences, lead-in patterns, first code line.
cleanCompletion(completion) ==
  LET c1 == stripThink(completion)
  IN  IF trim(c1) = "" THEN ""
      ELSE LET c2 == stripClosingFence(stripOpeningFence(c1))
               c3 == stripLeadIns(c2, completionPatterns, ".")
           IN  trim(join(selectCodeLines(split(c3), 1, <<>>)))

\* A generated-code cleaner that keeps the reasoning text.
cleanGeneratedCodeKeepThink(code) ==
  trim(stripLeadIns(stripClosingFence(stripOpeningFence(code)),
                    generatedPatterns, ":"))

\* cleanGeneratedCode: marker, fences, lead-in patterns, trim.
cleanGeneratedCode(code) ==
  LET c1 == stripThink(code)
      c2 == stripClosingFence(stripOpeningFence(c1))
  IN  trim(stripLeadIns(c2, generatedPatterns, ":"))

\* ------------------------------------------------------------------------
\* Context extractor: prompt-trigger detection.
\* ------------------------------------------------------------------------

\* A test that takes every line comment for a trigger.
isLineComment(prefix) ==
  startsWith(trim(prefix), "//")

\* trimmed.startsWith('// ') && trimmed.length > 3
isPromptBasedGeneration(prefix) ==
  LET trimmed == trim(prefix)
  IN  startsWith(trimmed, "// ") /\ Len(trimmed) > 3

\* prefix.match(/\/\/\s*(.+)/): where capture group 1 starts for the "//" at
\* index i, or 0 when the pattern does not match there.  \s* is greedy and
\* gives characters back when nothing is left for (.+).
GroupStart(prefix, i) ==
  LET w == SkipWhile(prefix, i + 2, Whitespace)
  IN  IF w <= Len(prefix) THEN w
      ELSE LET c == {j \in (i + 2)..Len(prefix) : At(prefix, j) \notin LineTerminators}
           IN  IF c = {} THEN 0 ELSE CHOOSE j \in c : \A k \in c : j >= k

\* The match result as a sequence: << >> for null, << group 1 >> otherwise.
promptMatch(prefix) ==
  LET starts == {i \in 1..Len(prefix) :
                   MatchesAt(prefix, "//", i) /\ GroupStart(prefix, i) # 0}
  IN  IF starts = {} THEN << >>
      ELSE LET i == CHOOSE a \in starts : \A b \in starts : a <= b
               g == GroupStart(prefix, i)
           IN  << FirstLine(SubSeq(prefix, g, Len(prefix))) >>

\* handlePromptGeneration's userPrompt, for a prefix the pattern matches.
userPrompt(prefix) ==
  trim(promptMatch(prefix)[1])

\* ------------------------------------------------------------------------
\* Bounds of the model and constants of the program.
\* ------------------------------------------------------------------------

\* The number of provideInlineCompletionItems calls in one behaviour.
MaxRequests ==
  3

\* The clock advances in steps of this many milliseconds.
TickStep ==
  250

\* private readonly debounceDelay = 500
debounceDelay ==
  500

\* ------------------------------------------------------------------------
\* Request coordinator: state.
\* ------------------------------------------------------------------------

VARIABLES
  enabled,            \* this.enabled
  apiKey,             \* this.apiKey is a non-empty string
  pendingResolve,     \* the request whose resolve function is stored, 0 = null
  lastDebounceInput,  \* the request whose {document, position, token} is stored, 0 = null
  debounceTimer,      \* the request that set the handle stored, 0 = null
  timers,             \* the requests whose setTimeout callback is still scheduled
  elapsed,            \* milliseconds since the timer was armed, up to debounceDelay
  nreq,               \* the number of provide calls made so far
  mode,               \* per request: "none", "config", "prompt" or "inline"
  cancelled,          \* per request: token.isCancellationRequested
  resolved,           \* per request: the values passed to its resolve, in order
  calls,              \* the Suggestion Client calls in flight
  invoked,            \* per request: the client calls made with its input
  early,              \* history: the requests superseded inside the debounce window
  failed,             \* history: the requests whose client call ended in a failure
  skipped,            \* history: the timer callback took its skip branch
  raw,                \* sanitizer check: the raw model text
  cleaner,            \* sanitizer check: "none", "inline" or "generated"
  out,                \* sanitizer check: the cleaned text
  linePrefix,         \* trigger check: the line prefix up to the cursor
  stage,              \* trigger check: "none", "tested", "extracted" or "rejected"
  intent,             \* trigger check: << >> or << userPrompt >>
  document,           \* context check: the lines of the document
  cursorLine,         \* context check: position.line (lines count from 0)
  startLine,          \* context check: getFullMethodContext's startLine, -1 = not run
  cache,              \* cache check: the entries of this.cache
  clock,              \* cache check: Date.now(), in milliseconds
  advCalls            \* cache check: the getAdvancedCompletion calls, in order

vars ==
  << enabled, apiKey, pendingResolve, lastDebounceInput,
     debounceTimer, timers, elapsed, nreq, mode, cancelled, resolved,
     calls, invoked, early, failed, skipped, raw, cleaner, out,
     linePrefix, stage, intent, document, cursorLine, startLine,
     cache, clock, advCalls >>

configVars ==
  << enabled, apiKey >>

timerVars ==
  << debounceTimer, timers, elapsed >>

historyVars ==
  << early, failed, skipped >>

coordVars ==
  << configVars, pendingResolve, lastDebounceInput, timerVars, nreq, mode,
     cancelled, resolved, calls, invoked, historyVars >>

sanitizerVars ==
  << raw, cleaner, out >>

extractorVars ==
  << linePrefix, stage, intent >>

contextVars ==
  << document, cursorLine, startLine >>

cacheVars ==
  << cache, clock, advCalls >>

pureVars ==
  << sanitizerVars, extractorVars, contextVars, cacheVars >>

Requests ==
  1..MaxRequests

\* "No suggestion": the value null.
Null ==
  [kind |-> "null", text |-> "", src |-> 0]

\* [new vscode.InlineCompletionItem(text, range)], the range taken from the
\* position of request src.
Item(text, src) ==
  [kind |-> "item", text |-> text, src |-> src]

\* The settled value of a request's promise: the first value passed to its
\* resolve function (later calls of resolve change nothing).
\* The callback of the handle stored in this.debounceTimer is still scheduled.
timerArmed ==
  debounceTimer \in timers

Unresolved(r) ==
  resolved[r] = <<>>

Value(r) ==
  Head(resolved[r])

\* The line prefixes the editor hands over (the text before the cursor).
Prefixes ==
  {"x = ", "// add two numbers", "//", "  // x"}

\* The prefixes handlePromptGeneration is called for, and what it extracts:
\* << >> when its pattern does not match.
PromptPrefixes ==
  {p \in Prefixes : isPromptBasedGeneration(p)}

InlinePrefixes ==
  Prefixes \ PromptPrefixes

PromptMatches ==
  [p \in Prefixes |-> promptMatch(p)]

\* The message contents the remote service replies with.
Replies ==
  {"return a + b;", "", "<think>hm</think>\nreturn 1;"}

Failures ==
  {"nochoices", "timeout", "network"}

\* How one request to the remote service ends: a reply with a message
\* content, a reply without choices, a timeout, a transport or HTTP error.
Outcomes ==
  {[kind |-> "reply", content |-> c] : c \in Replies}
    \cup {[kind |-> k, content |-> ""] : k \in Failures}

Init ==
  /\ enabled \in BOOLEAN
  /\ apiKey \in BOOLEAN
  /\ pendingResolve = 0
  /\ lastDebounceInput = 0
  /\ debounceTimer = 0
  /\ timers = {}
  /\ elapsed = 0
  /\ nreq = 0
  /\ mode = [r \in Requests |-> "none"]
  /\ cancelled = [r \in Requests |-> FALSE]
  /\ resolved = [r \in Requests |-> <<>>]
  /\ calls = {}
  /\ invoked = [r \in Requests |-> 0]
  /\ early = {}
  /\ failed = {}
  /\ skipped = FALSE
  /\ raw = ""
  /\ cleaner = "none"
  /\ out = ""
  /\ linePrefix = ""
  /\ stage = "none"
  /\ intent = << >>
  /\ document = << >>
  /\ cursorLine = 0
  /\ startLine = -1
  /\ cache = {}
  /\ clock = 0
  /\ advCalls = << >>

\* ------------------------------------------------------------------------
\* Suggestion client results, as the callers see them.
\* ------------------------------------------------------------------------

\* getCompletion: << >> for null, << cleaned text >> for a reply with choices.
getCompletion(outcome) ==
  IF outcome.kind = "reply"
    THEN << cleanCompletion(trim(outcome.content)) >>
    ELSE << >>

\* generateCodeFromPrompt: << >> for null, << cleaned text >> otherwise.
generateCodeFromPrompt(outcome) ==
  IF outcome.kind = "reply"
    THEN << cleanGeneratedCode(trim(outcome.content)) >>
    ELSE << >>

\* The two functions over the outcomes of the model, evaluated once.
InlineReturn ==
  [o \in Outcomes |-> getCompletion(o)]

PromptReturn ==
  [o \in Outcomes |-> generateCodeFromPrompt(o)]

\* A caller that builds a suggestion from whatever text came back.
completionResultUnchecked(completion, r) ==
  IF completion # << >>
    THEN Item(completion[1], r)
    ELSE Null

\* What getCompletionWithDebounce returns once getCompletion has returned.
completionResult(completion, r) ==
  IF completion # << >> /\ completion[1] # "" /\ Len(trim(completion[1])) > 0
    THEN Item(completion[1], r)
    ELSE Null

\* What handlePromptGeneration returns once generateCodeFromPrompt has.
generationResult(generatedCode, r) ==
  IF generatedCode # << >> /\ generatedCode[1] # ""
       /\ Len(trim(generatedCode[1])) > 0
    THEN Item("\n" \o generatedCode[1], r)
    ELSE Null

\* ------------------------------------------------------------------------
\* Request coordinator: operations.
\* ------------------------------------------------------------------------

\* The guard of provideInlineCompletionItems: this.enabled && this.apiKey.
ConfigReady ==
  enabled /\ apiKey

\* A provider that forgets to tell the superseded caller anything.
SupersedeNothing ==
  resolved

\* if (this.pendingResolve) this.pendingResolve(null): the resolve calls after it.
SupersedePending ==
  IF pendingResolve # 0
    THEN [resolved EXCEPT ![pendingResolve] = Append(@, Null)]
    ELSE resolved

\* The timer set by request t with setTimeout(..., this.debounceDelay) is
\* due.  elapsed is the time since the latest setTimeout; a timer set before
\* that one expires no later than it, and how long it still has is left open.
TimerDue(t) ==
  t = debounceTimer => elapsed >= debounceDelay

\* An executor that overwrites the stored handle without clearing it.
timeoutNotCleared ==
  timers

\* if (this.debounceTimer) clearTimeout(this.debounceTimer): the callbacks
\* still scheduled after it (clearing a fired handle changes nothing).
clearTimeout ==
  timers \ {debounceTimer}

\* A timer callback that never looks at the token.
NeverCancelled(r) ==
  FALSE

\* token.isCancellationRequested, as getCompletionWithDebounce reads it.
TokenCancelled(r) ==
  cancelled[r]

\* A timer callback without the identity check.
AlwaysCurrent(call) ==
  TRUE

\* currentResolve === this.pendingResolve
StillCurrent(call) ==
  call.resolve = pendingResolve

\* A finally block that leaves the fields as they are.
ClearNothing ==
  UNCHANGED << pendingResolve, lastDebounceInput >>

\* The finally block when the request is still the pending one:
\* this.pendingResolve = null; this.lastDebounceInput = null.
ClearPending ==
  /\ pendingResolve' = 0
  /\ lastDebounceInput' = 0

\* provideInlineCompletionItems, disabled or without an API key: return null.
ProvideConfigMissing ==
  /\ nreq < MaxRequests
  /\ ~ConfigReady
  /\ nreq' = nreq + 1
  /\ mode' = [mode EXCEPT ![nreq + 1] = "config"]
  /\ resolved' = [resolved EXCEPT ![nreq + 1] = << Null >>]
  /\ UNCHANGED << configVars, pendingResolve, lastDebounceInput, timerVars,
                  cancelled, calls, invoked, historyVars, pureVars >>

\* provideInlineCompletionItems on a "// ..." prefix: handlePromptGeneration,
\* up to its await of generateCodeFromPrompt (the request is sent at once).
ProvidePrompt ==
  /\ nreq < MaxRequests
  /\ ConfigReady
  /\ \E prefix \in PromptPrefixes, c \in BOOLEAN :
       LET r == nreq + 1
       IN  /\ nreq' = r
           /\ mode' = [mode EXCEPT ![r] = "prompt"]
           /\ cancelled' = [cancelled EXCEPT ![r] = c]
           /\ IF c \/ PromptMatches[prefix] = << >>
                THEN /\ resolved' = [resolved EXCEPT ![r] = << Null >>]
                     /\ UNCHANGED << calls, invoked >>
                ELSE /\ calls' = calls \cup
                          {[resolve |-> r, input |-> r, kind |-> "prompt"]}
                     /\ invoked' = [invoked EXCEPT ![r] = @ + 1]
                     /\ UNCHANGED resolved
  /\ UNCHANGED << configVars, pendingResolve, lastDebounceInput, timerVars,
                  historyVars, pureVars >>

\* provideInlineCompletionItems otherwise: the executor of the new Promise.
ProvideInline ==
  /\ nreq < MaxRequests
  /\ ConfigReady
  /\ \E prefix \in InlinePrefixes, c \in BOOLEAN :
       LET r == nreq + 1
       IN  /\ nreq' = r
           /\ mode' = [mode EXCEPT ![r] = "inline"]
           /\ cancelled' = [cancelled EXCEPT ![r] = c]
           /\ resolved' = SupersedePending
           /\ pendingResolve' = r
           /\ lastDebounceInput' = r
           /\ debounceTimer' = r
           /\ timers' = clearTimeout \cup {r}
           /\ elapsed' = 0
           /\ early' = IF timerArmed /\ elapsed < debounceDelay
                         THEN early \cup {debounceTimer}
                         ELSE early
  /\ UNCHANGED << configVars, calls, invoked, failed, skipped, pureVars >>

\* Time passes while a debounce timer is armed.
Tick ==
  /\ timerArmed
  /\ elapsed < debounceDelay
  /\ elapsed' = IF elapsed + TickStep > debounceDelay
                  THEN debounceDelay ELSE elapsed + TickStep
  /\ UNCHANGED << configVars, pendingResolve, lastDebounceInput, debounceTimer,
                  timers, nreq, mode, cancelled, resolved, calls, invoked,
                  historyVars, pureVars >>

\* The setTimeout callback, up to its await: it runs getCompletionWithDebounce
\* up to getCompletion's request.  When the token is cancelled, or the
\* document no longer has the line (lineAt throws inside the try), null comes
\* back without a request and the callback runs to its end in the same turn.
TimerFires ==
  /\ \E t \in timers :
       /\ TimerDue(t)
       /\ timers' = timers \ {t}
  /\ IF pendingResolve = 0 \/ lastDebounceInput = 0
       THEN /\ skipped' = TRUE
            /\ UNCHANGED << pendingResolve, lastDebounceInput, resolved,
                            calls, invoked >>
       ELSE /\ UNCHANGED skipped
            /\ \E lineValid \in BOOLEAN :
                 IF TokenCancelled(lastDebounceInput) \/ ~lineValid
                   THEN /\ resolved' = [resolved EXCEPT
                                          ![pendingResolve] = Append(@, Null)]
                        /\ ClearPending
                        /\ UNCHANGED << calls, invoked >>
                   ELSE /\ calls' = calls \cup
                             {[resolve |-> pendingResolve,
                               input |-> lastDebounceInput, kind |-> "inline"]}
                        /\ invoked' = [invoked EXCEPT ![lastDebounceInput] = @ + 1]
                        /\ UNCHANGED << pendingResolve, lastDebounceInput,
                                        resolved >>
  /\ UNCHANGED << configVars, debounceTimer, elapsed, nreq, mode, cancelled,
                  early, failed, pureVars >>

\* A callback that sends the request again when the call has failed.
InlineCompletionWithRetry(call, outcome) ==
  /\ call \in calls
  /\ call.kind = "inline"
  /\ IF outcome.kind \in Failures /\ invoked[call.input] < 2
       THEN /\ invoked' = [invoked EXCEPT ![call.input] = @ + 1]
            /\ UNCHANGED << calls, resolved, pendingResolve,
                            lastDebounceInput, failed >>
       ELSE /\ calls' = calls \ {call}
            /\ IF StillCurrent(call)
                 THEN /\ resolved' = [resolved EXCEPT ![call.resolve] =
                           Append(@, completionResult(InlineReturn[outcome],
                                                      call.input))]
                      /\ ClearPending
                 ELSE UNCHANGED << resolved, pendingResolve,
                                   lastDebounceInput >>
            /\ failed' = IF outcome.kind \in Failures
                           THEN failed \cup {call.input} ELSE failed
            /\ UNCHANGED invoked
  /\ UNCHANGED << configVars, timerVars, nreq, mode, cancelled,
                  early, skipped, pureVars >>

\* The rest of the setTimeout callback, after getCompletionWithDebounce has
\* returned: the identity check, the resolve and the finally block.
InlineCompletion(call, outcome) ==
  /\ call \in calls
  /\ call.kind = "inline"
  /\ calls' = calls \ {call}
  /\ IF StillCurrent(call)
       THEN /\ resolved' = [resolved EXCEPT ![call.resolve] =
                 Append(@, completionResult(InlineReturn[outcome], call.input))]
            /\ ClearPending
       ELSE UNCHANGED << resolved, pendingResolve, lastDebounceInput >>
  /\ failed' = IF outcome.kind \in Failures
                 THEN failed \cup {call.input} ELSE failed
  /\ UNCHANGED << configVars, timerVars, nreq, mode, cancelled, invoked,
                  early, skipped, pureVars >>

InlineCallCompletes ==
  \E call \in calls, outcome \in Outcomes : InlineCompletion(call, outcome)

\* The rest of handlePromptGeneration, after generateCodeFromPrompt returned.
PromptCompletion(call, outcome) ==
  /\ call \in calls
  /\ call.kind = "prompt"
  /\ calls' = calls \ {call}
  /\ resolved' = [resolved EXCEPT ![call.resolve] =
       Append(@, generationResult(PromptReturn[outcome], call.input))]
  /\ failed' = IF outcome.kind \in Failures
                 THEN failed \cup {call.input} ELSE failed
  /\ UNCHANGED << configVars, pendingResolve, lastDebounceInput, timerVars,
                  nreq, mode, cancelled, invoked, early, skipped,
                  pureVars >>

PromptCallCompletes ==
  \E call \in calls, outcome \in Outcomes : PromptCompletion(call, outcome)

\* A provider that listens to the token: the pending request is resolved
\* with null and its timer cleared when the signal fires.
CancelWithListener ==
  \E r \in 1..nreq :
    /\ Unresolved(r)
    /\ ~cancelled[r]
    /\ cancelled' = [cancelled EXCEPT ![r] = TRUE]
    /\ IF r = pendingResolve /\ timerArmed
         THEN /\ resolved' = [resolved EXCEPT ![r] = Append(@, Null)]
              /\ pendingResolve' = 0
              /\ lastDebounceInput' = 0
              /\ timers' = timers \ {debounceTimer}
              /\ UNCHANGED << debounceTimer, elapsed >>
         ELSE UNCHANGED << resolved, pendingResolve, lastDebounceInput,
                           timerVars >>
    /\ UNCHANGED << configVars, nreq, mode, calls, invoked, historyVars,
                    pureVars >>

\* The editor cancels the token of a request it still waits for; the provider
\* registers no listener on the token, so nothing else changes.
Cancel ==
  \E r \in 1..nreq :
    /\ Unresolved(r)
    /\ ~cancelled[r]
    /\ cancelled' = [cancelled EXCEPT ![r] = TRUE]
    /\ UNCHANGED << configVars, pendingResolve, lastDebounceInput, timerVars,
                    nreq, mode, resolved, calls, invoked, historyVars,
                    pureVars >>

\* updateConfiguration: the settings are read again.
updateConfiguration ==
  /\ \E e \in BOOLEAN, k \in BOOLEAN :
       /\ << e, k >> # << enabled, apiKey >>
       /\ enabled' = e
       /\ apiKey' = k
  /\ UNCHANGED << pendingResolve, lastDebounceInput, timerVars, nreq, mode,
                  cancelled, resolved, calls, invoked, historyVars,
                  pureVars >>

Next ==
  \/ ProvideConfigMissing
  \/ ProvidePrompt
  \/ ProvideInline
  \/ Tick
  \/ TimerFires
  \/ InlineCallCompletes
  \/ PromptCallCompletes
  \/ Cancel
  \/ updateConfiguration

Spec ==
  Init /\ [][Next]_vars

\* The number of provideInlineCompletionItems calls in one behaviour of the
\* specification with fairness.
MaxLiveRequests ==
  2

LiveNext ==
  \/ (nreq < MaxLiveRequests /\ ProvideConfigMissing)
  \/ (nreq < MaxLiveRequests /\ ProvidePrompt)
  \/ (nreq < MaxLiveRequests /\ ProvideInline)
  \/ Tick
  \/ TimerFires
  \/ InlineCallCompletes
  \/ PromptCallCompletes
  \/ Cancel
  \/ updateConfiguration

\* The coordinator with the scheduling the runtime gives: time passes while
\* a timer is armed, a due timer callback runs, and every call to the remote
\* service returns (axios has a timeout).
LiveSpec ==
  /\ Init
  /\ [][LiveNext]_vars
  /\ WF_vars(Tick)
  /\ WF_vars(TimerFires)
  /\ WF_vars(InlineCallCompletes)
  /\ WF_vars(PromptCallCompletes)

\* ------------------------------------------------------------------------
\* The sanitizer on its own: a raw text is drawn and cleaned.
\* ------------------------------------------------------------------------

\* The number of fragments a raw text is made of, at most.
MaxPieces ==
  3

\* The pieces raw model texts are made of.
Fragments ==
  { "<think>reasoning...</think>\n",
    FENCE \o "js\nreturn a + b;\n" \o FENCE,
    FENCE \o "js\n",
    "return a + b;",
    "Here's the code: ",
    "const x = 5;",
    "Okay, the user wants a sum. ",
    "<THINK>",
    "\n" }

RECURSIVE TextsOf(_)
TextsOf(n) ==
  IF n = 0 THEN {""}
  ELSE LET shorter == TextsOf(n - 1)
       IN  shorter \cup {t \o f : t \in shorter, f \in Fragments}

RawTexts ==
  TextsOf(MaxPieces)

SanitizerInit ==
  /\ enabled = TRUE
  /\ apiKey = TRUE
  /\ pendingResolve = 0
  /\ lastDebounceInput = 0
  /\ debounceTimer = 0
  /\ timers = {}
  /\ elapsed = 0
  /\ nreq = 0
  /\ mode = [r \in Requests |-> "none"]
  /\ cancelled = [r \in Requests |-> FALSE]
  /\ resolved = [r \in Requests |-> <<>>]
  /\ calls = {}
  /\ invoked = [r \in Requests |-> 0]
  /\ early = {}
  /\ failed = {}
  /\ skipped = FALSE
  /\ raw \in RawTexts
  /\ cleaner = "none"
  /\ out = ""
  /\ linePrefix = ""
  /\ stage = "none"
  /\ intent = << >>
  /\ document = << >>
  /\ cursorLine = 0
  /\ startLine = -1
  /\ cache = {}
  /\ clock = 0
  /\ advCalls = << >>

\* this.cleanCompletion(raw)
CleanInline ==
  /\ cleaner = "none"
  /\ cleaner' = "inline"
  /\ out' = cleanCompletion(raw)
  /\ UNCHANGED << raw, coordVars, extractorVars, contextVars,
                  cacheVars >>

\* this.cleanGeneratedCode(raw)
CleanGenerated ==
  /\ cleaner = "none"
  /\ cleaner' = "generated"
  /\ out' = cleanGeneratedCode(raw)
  /\ UNCHANGED << raw, coordVars, extractorVars, contextVars,
                  cacheVars >>

SanitizerNext ==
  \/ CleanInline
  \/ CleanGenerated

SanitizerSpec ==
  SanitizerInit /\ [][SanitizerNext]_vars

\* ------------------------------------------------------------------------
\* Trigger detection on its own: a line prefix is drawn, tested and, when
\* it is a trigger, the user prompt is extracted from it.
\* ------------------------------------------------------------------------

\* The number of fragments a line prefix is made of, at most.
MaxPrefixPieces ==
  4

\* The pieces line prefixes are made of (a line has no line terminator).
PrefixFragments ==
  { "//", "/", " ", "\t", "x",
    "create a function that validates email addresses" }

RECURSIVE PrefixesOf(_)
PrefixesOf(n) ==
  IF n = 0 THEN {""}
  ELSE LET shorter == PrefixesOf(n - 1)
       IN  shorter \cup {t \o f : t \in shorter, f \in PrefixFragments}

LinePrefixes ==
  PrefixesOf(MaxPrefixPieces)

TriggerInit ==
  /\ enabled = TRUE
  /\ apiKey = TRUE
  /\ pendingResolve = 0
  /\ lastDebounceInput = 0
  /\ debounceTimer = 0
  /\ timers = {}
  /\ elapsed = 0
  /\ nreq = 0
  /\ mode = [r \in Requests |-> "none"]
  /\ cancelled = [r \in Requests |-> FALSE]
  /\ resolved = [r \in Requests |-> <<>>]
  /\ calls = {}
  /\ invoked = [r \in Requests |-> 0]
  /\ early = {}
  /\ failed = {}
  /\ skipped = FALSE
  /\ raw = ""
  /\ cleaner = "none"
  /\ out = ""
  /\ linePrefix \in LinePrefixes
  /\ stage = "none"
  /\ intent = << >>
  /\ document = << >>
  /\ cursorLine = 0
  /\ startLine = -1
  /\ cache = {}
  /\ clock = 0
  /\ advCalls = << >>

\* if (this.isPromptBasedGeneration(prefix)): the test of the prompt branch.
TestPrefix ==
  /\ stage = "none"
  /\ stage' = IF isPromptBasedGeneration(linePrefix) THEN "tested" ELSE "rejected"
  /\ UNCHANGED << linePrefix, intent, coordVars, sanitizerVars, contextVars,
                  cacheVars >>

\* handlePromptGeneration: the match on the same prefix; null when the
\* pattern does not match, otherwise userPrompt.
ExtractPrompt ==
  /\ stage = "tested"
  /\ stage' = "extracted"
  /\ intent' = IF promptMatch(linePrefix) = << >>
                 THEN << >>
                 ELSE << userPrompt(linePrefix) >>
  /\ UNCHANGED << linePrefix, coordVars, sanitizerVars, contextVars,
                  cacheVars >>

TriggerNext ==
  \/ TestPrefix
  \/ ExtractPrompt

TriggerSpec ==
  TriggerInit /\ [][TriggerNext]_vars

\* ------------------------------------------------------------------------
\* Context extractor: the backward scan of getFullMethodContext.
\* ------------------------------------------------------------------------

\* if (i < position.line - 20) break
scanLimit ==
  20

\* Math.max(0, position.line - 15)
fallbackWindow ==
  15

\* The number of lines of the documents.
MaxDocLines ==
  23

\* The number of occurrences of the character ch in line.
CountChar(line, ch) ==
  Cardinality({j \in 1..Len(line) : At(line, j) = ch})

\* What the inner loop adds to braceLevel for one line: +1 for each "}" and
\* -1 for each "{".
braceDelta(line) ==
  CountChar(line, "}") - CountChar(line, "{")

\* line.match(/^\s*\w+\s*\(/)
methodPattern(line) ==
  LET a == SkipWhile(line, 1, Whitespace)
      b == SkipWhile(line, a, Letters \cup DigitChars \cup {"_"})
  IN  b > a /\ At(line, SkipWhile(line, b, Whitespace)) = "("

\* The test for function/method keywords, without the brace level.
declarationLine(line) ==
  \/ includes(line, "function ")
  \/ includes(line, "const ")
  \/ includes(line, "let ")
  \/ includes(line, "var ")
  \/ methodPattern(line)

\* The lines documents are made of: a statement, three declarations, and a
\* closing brace.
PlainLine ==
  "x;"

DeclarationLines ==
  {"function f() {", "const y = 1;", "  run (x)"}

BraceLine ==
  "}"

DocumentLines ==
  {PlainLine, BraceLine} \cup DeclarationLines

\* The two per-line results over the lines of the model, evaluated once.
BraceDeltas ==
  [l \in DocumentLines |-> braceDelta(l)]

Declares ==
  [l \in DocumentLines |-> declarationLine(l)]

\* The backward loop from line i on (lines count from 0), with the brace
\* level so far: the line it breaks at with foundFunction, or -1.
RECURSIVE scanBackwards(_, _, _, _)
scanBackwards(doc, c, i, braceLevel) ==
  IF i < 0 THEN -1
  ELSE LET line  == doc[i + 1]
           level == braceLevel + BraceDeltas[line]
       IN  IF level <= 0 /\ Declares[line] THEN i
           ELSE IF i < c - scanLimit THEN -1
           ELSE scanBackwards(doc, c, i - 1, level)

\* getFullMethodContext's startLine for cursor line c.
contextStart(doc, c) ==
  LET found == scanBackwards(doc, c, c, 0)
  IN  IF found # -1 THEN found
      ELSE IF c - fallbackWindow > 0 THEN c - fallbackWindow ELSE 0

\* The documents: statements everywhere, but for at most one declaration
\* line and at most one closing brace.
DocumentWith(d, decl, b) ==
  [i \in 1..MaxDocLines |->
     IF i = d THEN decl ELSE IF i = b THEN BraceLine ELSE PlainLine]

Documents ==
  {DocumentWith(d, decl, b) :
     d \in 0..MaxDocLines, decl \in DeclarationLines, b \in 0..MaxDocLines}

ContextInit ==
  /\ enabled = TRUE
  /\ apiKey = TRUE
  /\ pendingResolve = 0
  /\ lastDebounceInput = 0
  /\ debounceTimer = 0
  /\ timers = {}
  /\ elapsed = 0
  /\ nreq = 0
  /\ mode = [r \in Requests |-> "none"]
  /\ cancelled = [r \in Requests |-> FALSE]
  /\ resolved = [r \in Requests |-> <<>>]
  /\ calls = {}
  /\ invoked = [r \in Requests |-> 0]
  /\ early = {}
  /\ failed = {}
  /\ skipped = FALSE
  /\ raw = ""
  /\ cleaner = "none"
  /\ out = ""
  /\ linePrefix = ""
  /\ stage = "none"
  /\ intent = << >>
  /\ document \in Documents
  /\ cursorLine \in 0..(MaxDocLines - 1)
  /\ startLine = -1
  /\ cache = {}
  /\ clock = 0
  /\ advCalls = << >>

\* getFullMethodContext up to the line its context starts at (the lines
\* from there to the cursor are then joined).
getFullMethodContext ==
  /\ startLine = -1
  /\ startLine' = contextStart(document, cursorLine)
  /\ UNCHANGED << document, cursorLine, coordVars, sanitizerVars,
                  extractorVars, cacheVars >>

ContextNext ==
  getFullMethodContext

ContextSpec ==
  ContextInit /\ [][ContextNext]_vars

\* ------------------------------------------------------------------------
\* The completion cache (src/unnamed/part_000, AdvancedCompletionProvider).
\* ------------------------------------------------------------------------

\* private readonly cacheTimeout = 5 * 60 * 1000, in milliseconds
cacheTimeout ==
  300000

\* The getAdvancedCompletion calls of one behaviour.
MaxAdvancedCalls ==
  2

\* Date.now() advances by this many milliseconds at a time,
ClockStep ==
  150000

\* at most this many times.
MaxClockSteps ==
  2

\* The UTF-16 code units of the characters outside [A-Za-z0-9] that the
\* model's documents contain.
CodeUnits ==
  ("\n" :> 10) @@ (" " :> 32) @@ ("+" :> 43) @@ (";" :> 59)
    @@ ("<" :> 60) @@ ("=" :> 61) @@ (">" :> 62)

PositionIn(s, c) ==
  CHOOSE i \in 1..Len(s) : At(s, i) = c

\* String.charCodeAt, on a one-character string.
charCodeAt(c) ==
  IF c \in CharsOf(UpperAlpha) THEN 64 + PositionIn(UpperAlpha, c)
  ELSE IF c \in CharsOf(LowerAlpha) THEN 96 + PositionIn(LowerAlpha, c)
  ELSE IF c \in CharsOf(Digits) THEN 47 + PositionIn(Digits, c)
  ELSE CodeUnits[c]

\* A 32-bit two's complement integer is kept as << high, low >>, its two
\* 16-bit halves, so that no intermediate value leaves the range of the
\* integers TLC computes with.
Half ==
  65536

Zero32 ==
  << 0, 0 >>

\* hash << 5
shiftLeft5(w) ==
  LET low == w[2] * 32
  IN  << (w[1] * 32 + (low \div Half)) % Half, low % Half >>

\* a - b, modulo 2^32
minus32(a, b) ==
  LET low == a[2] - b[2]
  IN  << (a[1] - b[1] + (low \div Half)) % Half, low % Half >>

\* a + n for a code unit n, modulo 2^32
plus32(a, n) ==
  LET low == a[2] + n
  IN  << (a[1] + (low \div Half)) % Half, low % Half >>

\* hash & hash: the value as a signed 32-bit integer.
ToInt32(w) ==
  (IF w[1] >= Half \div 2 THEN w[1] - Half ELSE w[1]) * Half + w[2]

RECURSIVE digitsOf(_)
digitsOf(n) ==
  IF n < 10 THEN At(Digits, n + 1)
  ELSE digitsOf(n \div 10) \o At(Digits, (n % 10) + 1)

\* Number.prototype.toString() of an integer: its decimal digits, with a
\* leading "-" when it is negative.
toString(n) ==
  IF n >= 0 THEN digitsOf(n)
  ELSE LET last == (10 - (n % 10)) % 10
           rest == -((n + last) \div 10)
       IN  "-" \o (IF rest = 0 THEN "" ELSE digitsOf(rest))
               \o At(Digits, last + 1)

\* One round of generateCacheKey's loop: ((hash << 5) - hash) + char, kept
\* to 32 bits.
hashStep(hash, char) ==
  plus32(minus32(shiftLeft5(hash), hash), char)

\* The value of hash after the first n characters of context.  (The test
\* of Len(hash) makes TLC compute each round's value before the next round
\* uses it; it is always true.)
RECURSIVE hashUpTo(_, _)
hashUpTo(context, n) ==
  IF n = 0 THEN Zero32
  ELSE LET hash == hashUpTo(context, n - 1)
       IN  IF Len(hash) = 2
             THEN hashStep(hash, charCodeAt(At(context, n)))
             ELSE hash

generateCacheKey(context) ==
  toString(ToInt32(hashUpTo(context, Len(context))))

CURSOR ==
  "<CURSOR>"

\* getExtendedContext: up to 20 lines before the cursor line and 5 after
\* it, the cursor line cut at the cursor and followed by the marker.
\* position = << line, character >>, both counted from 0.
getExtendedContext(doc, position) ==
  LET lineCount == Len(doc)
      currentLine == position[1]
      first == IF currentLine - 20 > 0 THEN currentLine - 20 ELSE 0
      last == IF lineCount - 1 < currentLine + 5
                THEN lineCount - 1 ELSE currentLine + 5
      lines == [k \in 1..(last - first + 1) |->
                  LET i == first + k - 1
                  IN  IF i = currentLine
                        THEN SubSeq(doc[i + 1], 1, position[2]) \o CURSOR
                        ELSE doc[i + 1]]
  IN  join(lines)

\* The documents getAdvancedCompletion is called on,
EditorDocuments ==
  {<<"Aa">>, <<"BB">>, <<"x;", "Aa">>}

\* with the cursor at the end of one of their lines.
EditorPositions(doc) ==
  {<< l, Len(doc[l + 1]) >> : l \in 0..(Len(doc) - 1)}

Contexts ==
  UNION {{getExtendedContext(doc, position) :
            position \in EditorPositions(doc)} : doc \in EditorDocuments}

CacheKeys ==
  [context \in Contexts |-> generateCacheKey(context)]

\* The message contents the remote service replies with to requestCompletion.
AdvancedReplies ==
  {"return a + b;", " 1 ", " "}

AdvancedOutcomes ==
  {[kind |-> "reply", content |-> c] : c \in AdvancedReplies}
    \cup {[kind |-> k, content |-> ""] : k \in Failures}

\* What the awaited requestCompletion gives getAdvancedCompletion: << s >>
\* for the string s, << >> for null (no choices, or a content that is empty
\* once trimmed) and for a rejection, which the catch block only logs.
requestCompletion(outcome) ==
  IF outcome.kind = "reply" /\ trim(outcome.content) # ""
    THEN << trim(outcome.content) >>
    ELSE << >>

CacheInit ==
  /\ enabled = TRUE
  /\ apiKey = TRUE
  /\ pendingResolve = 0
  /\ lastDebounceInput = 0
  /\ debounceTimer = 0
  /\ timers = {}
  /\ elapsed = 0
  /\ nreq = 0
  /\ mode = [r \in Requests |-> "none"]
  /\ cancelled = [r \in Requests |-> FALSE]
  /\ resolved = [r \in Requests |-> <<>>]
  /\ calls = {}
  /\ invoked = [r \in Requests |-> 0]
  /\ early = {}
  /\ failed = {}
  /\ skipped = FALSE
  /\ raw = ""
  /\ cleaner = "none"
  /\ out = ""
  /\ linePrefix = ""
  /\ stage = "none"
  /\ intent = << >>
  /\ document = << >>
  /\ cursorLine = 0
  /\ startLine = -1
  /\ cache = {}
  /\ clock = 0
  /\ advCalls = << >>

\* this.cache.get(cacheKey): the entry stored under the key, if any.  An
\* entry carries, besides the Map's key and value, the context its
\* completion was requested for (history, read by no action's guard).
cacheGet(cacheKey) ==
  {cached \in cache : cached.key = cacheKey}

\* this.cache.set(cacheKey, { completion, timestamp: Date.now() })
cacheSet(cacheKey, completion, context) ==
  {cached \in cache : cached.key # cacheKey}
    \cup {[key |-> cacheKey, completion |-> completion,
           timestamp |-> clock, context |-> context]}

isFreshInclusive(cached) ==
  clock - cached.timestamp <= cacheTimeout

\* Date.now() - cached.timestamp < this.cacheTimeout
isFresh(cached) ==
  clock - cached.timestamp < cacheTimeout

\* getAdvancedCompletion up to its first return or its await: the cached
\* completion is returned, or requestCompletion is called.
getAdvancedCompletion(doc, position) ==
  /\ Len(advCalls) < MaxAdvancedCalls
  /\ LET context == getExtendedContext(doc, position)
         cacheKey == CacheKeys[context]
         found == {cached \in cacheGet(cacheKey) : isFresh(cached)}
     IN  advCalls' = Append(advCalls,
           IF found # {}
             THEN LET cached == CHOOSE e \in found : TRUE
                  IN  [context |-> context, status |-> "returned",
                       requests |-> 0, value |-> << cached.completion >>,
                       origin |-> cached.context, reply |-> << >>]
             ELSE [context |-> context, status |-> "waiting",
                   requests |-> 1, value |-> << >>,
                   origin |-> "", reply |-> << >>])
  /\ UNCHANGED << cache, clock, coordVars, sanitizerVars, extractorVars,
                  contextVars >>

\* getAdvancedCompletion after its await: call i's request ends with
\* outcome; a completion is stored and returned, anything else gives null.
requestCompletionEnds(i, outcome) ==
  /\ i \in 1..Len(advCalls)
  /\ advCalls[i].status = "waiting"
  /\ LET context == advCalls[i].context
         completion == requestCompletion(outcome)
     IN  /\ advCalls' =
               [advCalls EXCEPT ![i] =
                  [@ EXCEPT !.status = "returned",
                            !.value = completion,
                            !.origin = IF completion # << >>
                                         THEN context ELSE "",
                            !.reply = << outcome >>]]
         /\ cache' = IF completion # << >>
                       THEN cacheSet(CacheKeys[context], completion[1],
                                     context)
                       ELSE cache
  /\ UNCHANGED << clock, coordVars, sanitizerVars, extractorVars,
                  contextVars >>

\* Time passes.
DateAdvances ==
  /\ clock < MaxClockSteps * ClockStep
  /\ clock' = clock + ClockStep
  /\ UNCHANGED << cache, advCalls, coordVars, sanitizerVars, extractorVars,
                  contextVars >>

CacheNext ==
  \/ \E doc \in EditorDocuments : \E position \in EditorPositions(doc) :
       getAdvancedCompletion(doc, position)
  \/ \E i \in 1..MaxAdvancedCalls : \E outcome \in AdvancedOutcomes :
       requestCompletionEnds(i, outcome)
  \/ DateAdvances

CacheSpec ==
  CacheInit /\ [][CacheNext]_vars

\* ------------------------------------------------------------------------
\* Properties of the request coordinator (checked under Spec).
\* ------------------------------------------------------------------------

InlineRequests ==
  {r \in 1..nreq : mode[r] = "inline"}

\* C1: every inline request that a newer inline request superseded less than
\* debounceDelay after it was made (its timer still armed and not yet due)
\* has been resolved with null and the client was never invoked for it, so
\* of a rapid sequence only the last request's timer fires and dispatches.
C1_RapidRequestsOnlyLastDispatches ==
  \A r \in early :
    /\ mode[r] = "inline"
    /\ invoked[r] = 0
    /\ resolved[r] = << Null >>
    /\ \A call \in calls : call.input # r /\ call.resolve # r

\* C1 witness: three rapid requests, the first two superseded inside the
\* window and the third dispatched.
C1_Witness ==
  /\ early = {1, 2}
  /\ invoked[3] = 1
  /\ \E call \in calls : call.input = 3 /\ call.kind = "inline"

\* C2 (as claimed): a request is resolved with a suggestion only while it is
\* the most recent provide call made on the provider.
C2_SuggestionOnlyToLatestRequest ==
  [][\A r \in Requests :
       (resolved[r] = << >> /\ resolved'[r] # << >>
          /\ Head(resolved'[r]).kind = "item") => r = nreq']_vars

\* C3: when a newer inline request arrives while the call of the pending
\* one is in flight, the older one is resolved at that step, with null; no
\* resolve function is ever called a second time; and a suggestion a request
\* is resolved with was computed from that request's own input.
C3_SupersededInFlightGetsNullOnce ==
  [][/\ \A call \in calls :
          (call.kind = "inline" /\ call.resolve = pendingResolve
             /\ pendingResolve' # pendingResolve /\ pendingResolve' # 0)
            => resolved'[call.resolve] = << Null >>
     /\ \A r \in Requests :
          /\ resolved[r] # << >> => resolved'[r] = resolved[r]
          /\ Len(resolved'[r]) <= 1
          /\ (resolved'[r] # << >> /\ Head(resolved'[r]).kind = "item")
               => Head(resolved'[r]).src = r]_vars

\* C3 witness: the call of request 1 is in flight, request 2 has taken its
\* place and request 1 holds its single null.
C3_Witness ==
  \E call \in calls :
    /\ call.kind = "inline"
    /\ call.resolve # pendingResolve
    /\ pendingResolve # 0
    /\ mode[pendingResolve] = "inline"
    /\ resolved[call.resolve] = << Null >>

\* C4 (as claimed): at most one request of the provider is unresolved.
C4_AtMostOneUnresolved ==
  Cardinality({r \in 1..nreq : Unresolved(r)}) <= 1

\* C5: an inline request whose token is cancelled before the client was
\* invoked for it is never dispatched, and once its debounce timer is no
\* longer armed it has been resolved with null.
C5_CancelledBeforeExpiryNeverDispatched ==
  [][\A r \in Requests :
       (mode[r] = "inline" /\ cancelled[r] /\ invoked[r] = 0)
         => /\ invoked'[r] = 0
            /\ ~(timerArmed' /\ debounceTimer' = r)
                 => resolved'[r] = << Null >>]_vars

\* C5 witness: the latest request was cancelled while it was debouncing, its
\* timer has expired, it holds null and no call was made.
C5_Witness ==
  /\ nreq >= 1
  /\ mode[nreq] = "inline"
  /\ cancelled[nreq]
  /\ ~timerArmed
  /\ elapsed = debounceDelay
  /\ invoked[nreq] = 0
  /\ resolved[nreq] = << Null >>
  /\ calls = {}

\* The step in which the token of the debouncing request is cancelled.
CancelWhileDebouncing(r) ==
  /\ ~cancelled[r]
  /\ cancelled'[r]
  /\ pendingResolve = r
  /\ timerArmed

\* C6 (as claimed): the cancellation of the debouncing request resolves it
\* with null at once and clears the timer, leaving the coordinator Idle.
C6_CancelResolvesAtOnce ==
  [][\A r \in Requests :
       CancelWhileDebouncing(r)
         => /\ resolved'[r] = << Null >>
            /\ ~timerArmed'
            /\ pendingResolve' = 0]_vars

\* C6 (amended): the cancellation itself changes nothing (the request stays
\* pending, the timer stays armed); the timer callback that finds the
\* pending request cancelled resolves it with null without a client call and
\* leaves the coordinator Idle.
C6_CancelTakesEffectAtExpiry ==
  [][/\ \A r \in Requests :
          CancelWhileDebouncing(r)
            => /\ resolved'[r] = resolved[r]
               /\ timerArmed'
               /\ elapsed' = elapsed
               /\ pendingResolve' = r
     /\ (timerArmed /\ ~timerArmed' /\ pendingResolve # 0
           /\ cancelled[pendingResolve])
          => /\ resolved'[pendingResolve] = << Null >>
             /\ pendingResolve' = 0
             /\ lastDebounceInput' = 0
             /\ calls' = calls
             /\ invoked' = invoked]_vars

\* C6 witness: the pending request is cancelled, time has passed, and it is
\* still unresolved with its timer armed.
C6_Witness ==
  /\ pendingResolve # 0
  /\ cancelled[pendingResolve]
  /\ timerArmed
  /\ elapsed > 0
  /\ Unresolved(pendingResolve)

\* C7 (as claimed): an inline request whose token was cancelled before its
\* call completed is never resolved with a suggestion.  (Only the token of
\* an unresolved request is ever cancelled.)
C7_CancelledNeverGetsSuggestion ==
  \A r \in InlineRequests :
    (cancelled[r] /\ resolved[r] # << >>) => Value(r).kind # "item"

\* C8 (as claimed): while the provider is disabled or has no API key, no
\* step invokes the client and no request is resolved with a suggestion.
C8_NoClientCallWhileConfigMissing ==
  [][~ConfigReady =>
       /\ invoked' = invoked
       /\ \A r \in Requests :
            (resolved[r] = << >> /\ resolved'[r] # << >>)
              => Head(resolved'[r]).kind = "null"]_vars

\* C9: a request whose client call failed holds null and nothing else; when
\* the failed call is the pending request's, the step leaves the coordinator
\* as constructed: no pending resolve, no input, no timer armed.
C9_FailureResolvesNullAndIdles ==
  [][\A r \in Requests :
       /\ r \in failed' => resolved'[r] = << Null >>
       /\ (r \notin failed /\ r \in failed' /\ pendingResolve = r)
            => /\ pendingResolve' = 0
               /\ lastDebounceInput' = 0
               /\ ~timerArmed']_vars

\* C9 witness: after the failure of request 1 the coordinator was Idle, and
\* request 2 was debounced and dispatched.
C9_Witness ==
  /\ 1 \in failed
  /\ mode[1] = "inline"
  /\ 1 \notin early
  /\ ~cancelled[1]
  /\ mode[2] = "inline"
  /\ invoked[2] = 1
  /\ pendingResolve = 2
  /\ calls = {[resolve |-> 2, input |-> 2, kind |-> "inline"]}

\* C14: no request is ever resolved with a suggestion whose insert text is
\* empty or only whitespace: the inline insert text is the cleaned text and
\* the prompt insert text is a line feed and the cleaned text, and the
\* cleaned text has a non-whitespace character.
C14_NoEmptySuggestion ==
  \A r \in Requests :
    (resolved[r] # << >> /\ Value(r).kind = "item") =>
      LET t == Value(r).text
      IN  /\ mode[r] = "inline" => trim(t) # ""
          /\ mode[r] = "prompt" =>
               /\ At(t, 1) = "\n"
               /\ trim(SubSeq(t, 2, Len(t))) # ""
          /\ mode[r] \in {"inline", "prompt"}

\* C14 witness: the only request was dispatched, was neither cancelled nor
\* superseded, its call came back without a failure and it holds null: the
\* cleaned reply was empty.
C14_Witness ==
  /\ nreq = 1
  /\ mode[1] = "inline"
  /\ invoked[1] = 1
  /\ calls = {}
  /\ ~cancelled[1]
  /\ 1 \notin failed
  /\ resolved[1] = << Null >>

\* C16 (as claimed): at most one Suggestion Client call is in flight.
C16_SingleCallInFlight ==
  Cardinality(calls) <= 1

\* C17: at most one debounce timer callback is scheduled, and it is the one
\* whose handle is stored in debounceTimer: an inline request clears the
\* stored handle before it sets its own timer.
C17_AtMostOneTimerArmed ==
  /\ Cardinality(timers) <= 1
  /\ timers \subseteq {debounceTimer}
  /\ timers \subseteq InlineRequests

\* C17 witness: the timer of request 1 was cleared while it was scheduled
\* and the timer of request 2 is the only one scheduled.
C17_Witness ==
  /\ 1 \in early
  /\ debounceTimer = 2
  /\ timers = {2}
  /\ elapsed > 0

\* C18 (as claimed): the client is invoked for a request only when the
\* debounce delay has elapsed since that request was made and the request
\* is still the latest one.
C18_EveryCallPassesDebounce ==
  [][\A r \in Requests :
       invoked'[r] > invoked[r]
         => /\ r \in 1..nreq
            /\ r = nreq'
            /\ debounceTimer = r
            /\ elapsed >= debounceDelay]_vars

\* C19: the timer callback that runs finds pendingResolve and
\* lastDebounceInput set, both by the request that set this timer, and its
\* skip branch is never taken.  (A step that takes a callback out of the
\* scheduled ones without a new request being made is that callback running.)
C19_TimerFindsItsOwnRequest ==
  [][/\ \A t \in timers \ timers' :
          nreq' = nreq => (pendingResolve = t /\ lastDebounceInput = t)
     /\ ~skipped']_vars

\* C19 witness: request 1 was dispatched and superseded by request 2, its
\* call has returned, and the timer of request 2 has run and dispatched.
C19_Witness ==
  /\ nreq = 2
  /\ invoked[1] = 1
  /\ resolved[1] = << Null >>
  /\ invoked[2] = 1
  /\ timers = {}
  /\ pendingResolve = 2
  /\ calls = {[resolve |-> 2, input |-> 2, kind |-> "inline"]}
  /\ ~skipped

C24_InlineRequestsEventuallyResolved ==
  \A r \in Requests : (mode[r] = "inline") ~> (resolved[r] # << >>)

\* C24 witness: an inline request that was superseded while its call was in
\* flight, and the later one that was cancelled after its dispatch, are both
\* resolved after a change of configuration.
C24_Witness ==
  /\ nreq = 2
  /\ mode[1] = "inline"
  /\ mode[2] = "inline"
  /\ invoked[1] = 1
  /\ invoked[2] = 1
  /\ cancelled[2]
  /\ ~ConfigReady
  /\ calls = {}
  /\ resolved[1] # << >>
  /\ resolved[2] # << >>

\* ------------------------------------------------------------------------
\* Properties of the sanitizer (checked under SanitizerSpec).
\* ------------------------------------------------------------------------

\* A closed reasoning block followed by a fenced block with one code line.
ThinkThenFenced ==
  "<think>reasoning...</think>\n" \o FENCE \o "js\nreturn a + b;\n" \o FENCE

\* C10 (as claimed): for a closed reasoning block followed by a fenced code
\* block with one code line, the inline result is that code line.
C10_ThinkThenFenceGivesCodeLine ==
  (cleaner = "inline" /\ raw = ThinkThenFenced) => out = "return a + b;"

\* C10 (amended): for such a reply, as for every reply that begins with the
\* reasoning marker, the inline result is the empty string.
C10_ThinkThenFenceGivesEmpty ==
  (cleaner = "inline" /\ startsWith(toLowerCase(raw), "<think>")) => out = ""

\* C10 witness: the reply of the scenario has been cleaned.
C10_Witness ==
  /\ cleaner = "inline"
  /\ raw = ThinkThenFenced
  /\ out = ""

\* The text before the first reasoning marker of s, in any letter case; s
\* itself when it has none.
BeforeMarker(s) ==
  LET i == IndexFrom(toLowerCase(s), "<think>", 1)
  IN  IF i = 0 THEN s ELSE SubSeq(s, 1, i - 1)

HasMarker(s) ==
  includes(toLowerCase(s), "<think>")

\* C11: in both modes the cleaned output of a text with a reasoning marker
\* is the cleaned output of the text before the first marker alone, whatever
\* follows the marker.
C11_TextAfterMarkerIgnored ==
  (cleaner \in {"inline", "generated"} /\ HasMarker(raw)) =>
    LET p == BeforeMarker(raw)
    IN  /\ Len(p) < Len(raw)
        /\ cleaner = "inline" => out = cleanCompletion(p)
        /\ cleaner = "generated" => out = cleanGeneratedCode(p)

\* C11 witness: a code line, the marker, and a code-like line after it; the
\* generated-code cleaner returned the first code line only.
C11_Witness ==
  /\ cleaner = "generated"
  /\ raw = "return a + b;" \o "<think>reasoning...</think>\n" \o "const x = 5;"
  /\ out = "return a + b;"

\* C12 (as claimed): in each mode, cleaning a cleaned text again gives the
\* same text.
C12_SanitizerIdempotent ==
  /\ cleaner = "inline" => cleanCompletion(out) = out
  /\ cleaner = "generated" => cleanGeneratedCode(out) = out

\* A single line made of a lead-in phrase and a statement.
LeadInThenCode ==
  "Here's the code: " \o "const x = 5;"

\* C13 (as claimed): the inline result for a lead-in phrase followed by code
\* on one line is the code part.
C13_LeadInStrippedInline ==
  (cleaner = "inline" /\ raw = LeadInThenCode) => out = "const x = 5;"

\* C13 (amended): for that line the inline cleaner returns the empty string
\* (none of its lead-in patterns matches and the line is not taken for
\* code); it is the generated-code cleaner that returns the code part.
C13_LeadInLineDroppedInline ==
  raw = LeadInThenCode =>
    /\ cleaner = "inline" => out = ""
    /\ cleaner = "generated" => out = "const x = 5;"

\* C13 witness: the inline cleaner has run on the line of the scenario.
C13_Witness ==
  /\ cleaner = "inline"
  /\ raw = LeadInThenCode
  /\ out = ""

\* An opening fence with a language tag and a line feed.
TaggedFence ==
  FENCE \o "js\n"

\* C20 (as claimed): in both modes, the cleaned output of a text that starts
\* with an opening fence, a language tag and a line feed does not begin with
\* the language tag.
C20_LanguageTagRemoved ==
  (cleaner \in {"inline", "generated"} /\ startsWith(raw, TaggedFence))
    => ~startsWith(out, "js")

\* The lines of the raw text after the marker, the fences and the lead-in
\* phrases have been stripped from it; no lines when nothing but whitespace
\* is left once the marker is stripped.
StrippedLines ==
  LET c1 == stripThink(raw)
  IN  IF trim(c1) = "" THEN << >>
      ELSE LET c2 == stripClosingFence(stripOpeningFence(c1))
               c3 == stripLeadIns(c2, completionPatterns, ".")
           IN  split(c3)

\* The indexes of the lines that the heuristic accepts once trimmed.
AcceptedLines(lines) ==
  {i \in 1..Len(lines) : looksLikeCode(trim(lines[i]))}

\* C21: the inline result has no line feed and none of the explanation
\* keywords in any letter case; it is the trimmed first accepted line of the
\* stripped text, and empty when no line is accepted.
C21_InlineResultIsFirstCodeLine ==
  cleaner = "inline" =>
    LET lines == StrippedLines
        lower == toLowerCase(out)
        accepted == AcceptedLines(lines)
    IN  /\ ~includes(out, "\n")
        /\ \A k \in explanationKeywords : ~includes(lower, k)
        /\ IF accepted # {}
             THEN LET first == CHOOSE i \in accepted : \A j \in accepted : i <= j
                  IN  out = trim(lines[first])
             ELSE out = ""

\* C21 witness: the first line is prose and is passed over, the second is
\* code and is returned.
C21_Witness ==
  /\ cleaner = "inline"
  /\ raw = "Here's the code: " \o "\n" \o "return a + b;"
  /\ Len(StrippedLines) = 2
  /\ out = "return a + b;"

\* ------------------------------------------------------------------------
\* Properties of trigger detection (checked under TriggerSpec).
\* ------------------------------------------------------------------------

\* The prefix without its leading whitespace.
LeftTrimmed ==
  trimStart(linePrefix)

\* The trigger as the specification words it: the comment marker, a space,
\* and a non-whitespace character somewhere after them.
WordedTrigger ==
  /\ startsWith(LeftTrimmed, "//")
  /\ At(LeftTrimmed, 3) = " "
  /\ \E j \in 4..Len(LeftTrimmed) : At(LeftTrimmed, j) \notin Whitespace

\* C15: a prefix is taken for a generation trigger exactly when, without its
\* leading whitespace, it starts with "//", a space and has a further
\* non-whitespace character; the prompt extracted from a trigger is the text
\* after that "//", trimmed.
C15_TriggerAndIntent ==
  /\ stage \in {"tested", "extracted"} => WordedTrigger
  /\ stage = "rejected" => ~WordedTrigger
  /\ stage = "extracted" =>
       intent = << trim(SubSeq(LeftTrimmed, 3, Len(LeftTrimmed))) >>

\* C15 witness: the prompt of the documented example, typed after an
\* indentation, has been extracted.
C15_Witness ==
  /\ stage = "extracted"
  /\ linePrefix = "\t" \o "//" \o " "
                    \o "create a function that validates email addresses"
  /\ intent = << "create a function that validates email addresses" >>

\* ------------------------------------------------------------------------
\* Properties of the context extractor (checked under ContextSpec).
\* ------------------------------------------------------------------------

\* The brace level the scan has reached when it tests line i: the closing
\* minus the opening braces of the lines from i to the cursor.
RECURSIVE LevelAt(_)
LevelAt(i) ==
  IF i > cursorLine THEN 0
  ELSE braceDelta(document[i + 1]) + LevelAt(i + 1)

\* Line i is a declaration line at brace level <= 0.
Boundary(i) ==
  declarationLine(document[i + 1]) /\ LevelAt(i) <= 0

\* The lines at most 20 above the cursor.
ScanRange ==
  {i \in 0..cursorLine : i >= cursorLine - scanLimit}

\* C22 (as claimed): the context starts at most 20 lines above the cursor
\* when it starts at a declaration line, and at max(0, c-15) when no
\* declaration line at brace level <= 0 lies within 20 lines of the cursor.
C22_ScanBoundedTo20Lines ==
  startLine # -1 =>
    /\ (\E i \in ScanRange : Boundary(i)) =>
         (startLine \in ScanRange /\ Boundary(startLine))
    /\ (\A i \in ScanRange : ~Boundary(i)) =>
         startLine = IF cursorLine - fallbackWindow > 0
                       THEN cursorLine - fallbackWindow ELSE 0

\* ------------------------------------------------------------------------
\* Properties of the completion cache (checked under CacheSpec).
\* ------------------------------------------------------------------------

\* The entries stored under the fingerprint of context that were created
\* less than five minutes before the current time.
FreshEntries(context) ==
  {e \in cache : /\ e.key = CacheKeys[context]
                 /\ clock - e.timestamp < 5 * 60 * 1000}

\* Call i's request ended in this step.
RequestEnded(i) ==
  /\ advCalls[i].status = "waiting"
  /\ advCalls'[i].status = "returned"

\* C25: getAdvancedCompletion returns a stored completion without calling
\* the remote service if and only if an entry for the context's fingerprint
\* exists and was created less than 5 minutes ago; otherwise it issues
\* exactly one request, and it stores the result, with the current time,
\* only when the result is non-empty: a failure or an empty reply leaves
\* the cache as it was.
C25_CacheHitIffFreshEntry ==
  [][ /\ Len(advCalls') > Len(advCalls) =>
           LET call == advCalls'[Len(advCalls')]
               fresh == FreshEntries(call.context)
           IN  /\ cache' = cache
               /\ IF fresh # {}
                    THEN /\ call.status = "returned"
                         /\ call.requests = 0
                         /\ \E e \in fresh : call.value = << e.completion >>
                    ELSE /\ call.status = "waiting"
                         /\ call.requests = 1
      /\ \A i \in 1..Len(advCalls) :
           /\ advCalls'[i].requests = advCalls[i].requests
           /\ advCalls[i].status = "returned" => advCalls'[i] = advCalls[i]
           /\ RequestEnded(i) =>
                LET outcome == advCalls'[i].reply[1]
                    result == IF outcome.kind = "reply"
                                THEN trim(outcome.content) ELSE ""
                    cacheKey == CacheKeys[advCalls[i].context]
                IN  IF result = ""
                      THEN /\ advCalls'[i].value = << >>
                           /\ cache' = cache
                      ELSE /\ advCalls'[i].value = << result >>
                           /\ \E e \in cache' : /\ e.key = cacheKey
                                                /\ e.completion = result
                                                /\ e.timestamp = clock
                           /\ \A e \in cache' : e.key # cacheKey => e \in cache
                           /\ \A e \in cache : e.key # cacheKey => e \in cache'
      /\ cache' # cache => \E i \in 1..Len(advCalls) : RequestEnded(i)
    ]_vars

\* C25's case: a call stored the trimmed reply at time 0, and a later call
\* for the same context was served from the cache without a request.
C25_Witness ==
  /\ Len(advCalls) = 2
  /\ advCalls[1].context = "x;<CURSOR>\nAa"
  /\ advCalls[1].requests = 1
  /\ advCalls[1].reply = << [kind |-> "reply", content |-> " 1 "] >>
  /\ advCalls[1].value = << "1" >>
  /\ advCalls[2].context = advCalls[1].context
  /\ advCalls[2].requests = 0
  /\ advCalls[2].value = << "1" >>
  /\ \E e \in cache : e.completion = "1" /\ e.timestamp = 0
  /\ clock = ClockStep

\* C26: a cache hit returns only a completion that was produced for the
\* identical context string (no two different contexts share a cache
\* entry): every call answered without a request returns a completion
\* that was requested for its own context.
C26_HitServesIdenticalContext ==
  \A i \in 1..Len(advCalls) :
    (advCalls[i].status = "returned" /\ advCalls[i].requests = 0)
      => advCalls[i].origin = advCalls[i].context

====
